---- MODULE Spec2Model ----
(***************************************************************************)
(* Model of the RSVP page of events-frontend (src/src/pages/EventPage.jsx):*)
(* the event loader, the RSVP form, the submit flow, the lookup flow and   *)
(* the deadline gate.                                                      *)
(*                                                                         *)
(* Representation.  A JavaScript string is a sequence of one-character     *)
(* strings (<<"a","@","b">>), so that trimming, the regular expressions    *)
(* and the string comparison are computed character by character.  A       *)
(* message shown to the user is a sequence of text pieces; the empty       *)
(* sequence is the empty string.  An optional value (undefined / null in   *)
(* the source) is a sequence of length 0 or 1.  A state of the model is a  *)
(* state of the component between two handler executions, after React has *)
(* rendered and run the pending effects.                                   *)
(***************************************************************************)
EXTENDS Integers, Sequences, FiniteSets, TLC

VARIABLES
    slug,           \* useParams().slug
    mounted,        \* the component is mounted
    event,          \* useState(null): None or Some(event record)
    loading,        \* useState(true)
    err,            \* useState("")
    loads,          \* every load() call so far: its slug, whether its controller
                    \* is aborted, and where it stands ("fetch", "body", "done")
    form,           \* the RSVP form state
    submitting,     \* useState(false)
    submitErr,      \* useState("")
    submitOk,       \* useState("")
    submits,        \* POST requests in flight
    lookupKey,      \* useState("")
    lookupLoading,  \* useState(false)
    lookupMsg,      \* useState("")
    lookups,        \* lookup GET requests in flight
    isRsvpClosed,   \* the memoised deadline gate of the last render
    now,            \* the clock: hours since 00:00 UTC of BaseDate
    ops             \* user operations performed so far

vars == <<slug, mounted, event, loading, err, loads, form, submitting, submitErr,
          submitOk, submits, lookupKey, lookupLoading, lookupMsg, lookups,
          isRsvpClosed, now, ops>>

\* ------------------------------------------------------------------ bounds

\* The number of user operations (edits, clicks, navigations, clock steps) of
\* one behaviour of Spec.
MaxOps == 4

\* The clock stops advancing after this many hours.
MaxHours == 40

\* ------------------------------------------------------- optional values

None == <<>>

Some(v) == <<v>>

IsSome(o) == o # <<>>

Get(o) == o[1]

\* ---------------------------------------------------------------- strings

Digits == <<"0", "1", "2", "3", "4", "5", "6", "7", "8", "9">>

IsDigit(c) == \E i \in 1..10 : Digits[i] = c

DigitVal(c) == (CHOOSE i \in 1..10 : Digits[i] = c) - 1

\* \s of a JavaScript regular expression and the characters trim() removes.
IsSpace(c) == c \in {" ", "\t"}

\* The UTF-16 code unit of the characters that take part in a comparison.
CharCode(c) == IF IsDigit(c) THEN 48 + DigitVal(c) ELSE IF c = "-" THEN 45 ELSE 0

\* The character c, n times.
Repeat(c, n) == [i \in 1..n |-> c]

\* String.prototype.trim
Trim(s) ==
    LET keep == {i \in 1..Len(s) : ~IsSpace(s[i])}
    IN  IF keep = {} THEN <<>>
        ELSE LET lo == CHOOSE i \in keep : \A j \in keep : i <= j
                 hi == CHOOSE i \in keep : \A j \in keep : j <= i
             IN  SubSeq(s, lo, hi)

\* s.replace(/\s+/g, "")
RECURSIVE StripSpaces(_)
StripSpaces(s) ==
    IF s = <<>> THEN <<>>
    ELSE IF IsSpace(Head(s)) THEN StripSpaces(Tail(s))
    ELSE <<Head(s)>> \o StripSpaces(Tail(s))

\* String(n) of a non-negative integer
RECURSIVE NatToStr(_)
NatToStr(n) ==
    IF n < 10 THEN <<Digits[n + 1]>>
    ELSE NatToStr(n \div 10) \o <<Digits[(n % 10) + 1]>>

\* Number(s) of a non-empty string of decimal digits
RECURSIVE StrToNat(_)
StrToNat(s) ==
    IF Len(s) = 1 THEN DigitVal(s[1])
    ELSE 10 * StrToNat(SubSeq(s, 1, Len(s) - 1)) + DigitVal(s[Len(s)])

\* a > b on strings: the order of the first differing code unit, a proper
\* prefix being the smaller.
RECURSIVE StrGreater(_, _)
StrGreater(a, b) ==
    IF a = <<>> THEN FALSE
    ELSE IF b = <<>> THEN TRUE
    ELSE IF CharCode(Head(a)) # CharCode(Head(b))
         THEN CharCode(Head(a)) > CharCode(Head(b))
    ELSE StrGreater(Tail(a), Tail(b))

\* n as decimal digits, left-padded with zeros to at least w characters
PadNum(n, w) ==
    LET s == NatToStr(n)
    IN  IF Len(s) >= w THEN s ELSE Repeat("0", w - Len(s)) \o s

\* ----------------------------------------------------------------- regexes

\* /^[^\s@]+@[^\s@]+\.[^\s@]+$/.test(String(email || "").trim())
isValidEmail(email) ==
    LET s == Trim(email)
        Plain(i, j) == \A k \in i..j : ~IsSpace(s[k]) /\ s[k] # "@"
    IN  \E p \in 2..Len(s) : \E q \in (p + 2)..(Len(s) - 1) :
            /\ s[p] = "@"
            /\ s[q] = "."
            /\ Plain(1, p - 1)
            /\ Plain(p + 1, q - 1)
            /\ Plain(q + 1, Len(s))

\* MatchesPhone with {7,} for {6,}.
MatchesPhoneSevenMore(key) ==
    LET rest == IF key # <<>> /\ Head(key) = "+" THEN Tail(key) ELSE key
    IN  /\ Len(rest) >= 8
        /\ IsDigit(rest[1])
        /\ \A k \in 2..Len(rest) :
               IsDigit(rest[k]) \/ IsSpace(rest[k]) \/ rest[k] = "-"

\* /^\+?\d[\d\s-]{6,}$/.test(key)
MatchesPhone(key) ==
    LET rest == IF key # <<>> /\ Head(key) = "+" THEN Tail(key) ELSE key
    IN  /\ Len(rest) >= 7
        /\ IsDigit(rest[1])
        /\ \A k \in 2..Len(rest) :
               IsDigit(rest[k]) \/ IsSpace(rest[k]) \/ rest[k] = "-"

\* String(x).match(/^(\d{4})-(\d{2})-(\d{2})$/)
MatchesDate(s) ==
    /\ Len(s) = 10
    /\ \A k \in {1, 2, 3, 4, 6, 7, 9, 10} : IsDigit(s[k])
    /\ s[5] = "-"
    /\ s[8] = "-"

\* ---------------------------------------------------------------- calendar

\* The calendar date (UTC) at which the clock reads 0.
BaseDate == [y |-> 2025, m |-> 12, d |-> 31]

IsLeap(y) == (y % 4 = 0 /\ y % 100 # 0) \/ y % 400 = 0

DaysInMonth(y, m) ==
    IF m = 2 THEN (IF IsLeap(y) THEN 29 ELSE 28)
    ELSE IF m \in {4, 6, 9, 11} THEN 30 ELSE 31

NextDay(dt) ==
    IF dt.d < DaysInMonth(dt.y, dt.m) THEN [dt EXCEPT !.d = dt.d + 1]
    ELSE IF dt.m < 12 THEN [y |-> dt.y, m |-> dt.m + 1, d |-> 1]
    ELSE [y |-> dt.y + 1, m |-> 1, d |-> 1]

RECURSIVE DateOfDay(_)
DateOfDay(n) == IF n = 0 THEN BaseDate ELSE NextDay(DateOfDay(n - 1))

\* Asia/Singapore is UTC+8 all year.
SGTOffsetHours == 8

\* The calendar date in Singapore when the clock reads h.
DateSGT(h) == DateOfDay((h + SGTOffsetHours) \div 24)

\* The calendar date in UTC when the clock reads h.
DateUTC(h) == DateOfDay(h \div 24)

\* Intl.DateTimeFormat("en-CA", {year: "numeric", month: "2-digit",
\* day: "2-digit"}).format: "YYYY-MM-DD"
FormatDate(dt) == PadNum(dt.y, 4) \o <<"-">> \o PadNum(dt.m, 2) \o <<"-">> \o PadNum(dt.d, 2)

\* ------------------------------------------------------------ deadline gate

\* isAfterDeadlineSGT with today taken in UTC instead of UTC+8.
isAfterDeadlineUTC(rsvpDeadlineYYYYMMDD) ==
    IF ~IsSome(rsvpDeadlineYYYYMMDD) \/ Get(rsvpDeadlineYYYYMMDD) = <<>> THEN FALSE
    ELSE IF ~MatchesDate(Get(rsvpDeadlineYYYYMMDD)) THEN FALSE
    ELSE StrGreater(FormatDate(DateUTC(now)), Get(rsvpDeadlineYYYYMMDD))

\* isAfterDeadlineSGT: false for a falsy or malformed deadline, else
\* todaySGT > deadlineKey as strings.
isAfterDeadlineSGT(rsvpDeadlineYYYYMMDD) ==
    IF ~IsSome(rsvpDeadlineYYYYMMDD) \/ Get(rsvpDeadlineYYYYMMDD) = <<>> THEN FALSE
    ELSE IF ~MatchesDate(Get(rsvpDeadlineYYYYMMDD)) THEN FALSE
    ELSE LET s == Get(rsvpDeadlineYYYYMMDD)
             deadlineKey == SubSeq(s, 1, 4) \o <<"-">> \o SubSeq(s, 6, 7)
                                \o <<"-">> \o SubSeq(s, 9, 10)
             todaySGT == FormatDate(DateSGT(now))
         IN  StrGreater(todaySGT, deadlineKey)

\* event?.rsvp_deadline
DeadlineOf(ev) == IF IsSome(ev) THEN Get(ev).rsvp_deadline ELSE None

\* useMemo(() => isAfterDeadlineSGT(event?.rsvp_deadline), [event?.rsvp_deadline]):
\* the value of the render that follows a step which leaves the event ev.
\* It is recomputed only when the dependency differs from the last render's.
RsvpClosedMemo(ev) ==
    IF DeadlineOf(ev) # DeadlineOf(event) THEN isAfterDeadlineSGT(DeadlineOf(ev))
    ELSE isRsvpClosed

\* --------------------------------------------------------------- form state

DefaultForm ==
    [attendance_status |-> "attending", name |-> <<>>, email |-> <<>>,
     phone |-> <<>>, session_id |-> <<>>, remarks |-> <<>>,
     invite_code |-> <<>>, allow_public_share |-> FALSE]

\* useEffect(..., [form.attendance_status]): after a render in which
\* attendance_status differs from the previous render's, a declined form
\* with a session gets session_id cleared.
ClearSessionEffect(prev, f) ==
    IF f.attendance_status # prev.attendance_status
       /\ f.attendance_status = "declined" /\ f.session_id # <<>>
    THEN [f EXCEPT !.session_id = <<>>]
    ELSE f

PhoneMax == 50

RemarksMax == 1000

InviteCodeMax == 50

\* The fields for which the validator reports an error.
ErrorFields(f) ==
    {k \in {"attendance_status"} : f.attendance_status \notin {"attending", "declined"}}
    \cup {k \in {"name"} : Trim(f.name) = <<>>}
    \cup {k \in {"email"} : Trim(f.email) # <<>> /\ ~isValidEmail(Trim(f.email))}
    \cup {k \in {"phone"} : Len(f.phone) > PhoneMax}
    \cup {k \in {"remarks"} : Len(f.remarks) > RemarksMax}
    \cup {k \in {"invite_code"} : Len(f.invite_code) > InviteCodeMax}

FieldErrorText(k, f) ==
    CASE k = "attendance_status" ->
             IF f.attendance_status = "" THEN <<"Please select attendance">>
             ELSE <<"Invalid attendance option">>
      [] k = "name" -> <<"Name is required">>
      [] k = "email" -> <<"Email format looks wrong">>
      [] k = "phone" -> <<"Phone is too long">>
      [] k = "remarks" -> <<"Remarks is too long">>
      [] k = "invite_code" -> <<"Invite code is too long">>

\* fieldErrors: the mapping from field name to message, of the form f
fieldErrors(f) == [k \in ErrorFields(f) |-> FieldErrorText(k, f)]

\* canSubmit without the field errors.
canSubmitIgnoringErrors == ~submitting /\ ~isRsvpClosed

\* canSubmit without the submitting flag.
canSubmitWhileSubmitting == DOMAIN fieldErrors(form) = {} /\ ~isRsvpClosed

\* canSubmit refusing while a lookup is in flight.
canSubmitNotDuringLookup ==
    DOMAIN fieldErrors(form) = {} /\ ~submitting /\ ~isRsvpClosed /\ ~lookupLoading

\* canSubmit of the current render
canSubmit == DOMAIN fieldErrors(form) = {} /\ ~submitting /\ ~isRsvpClosed

\* ------------------------------------------------------------- JSON values

JNull == [t |-> "null"]

JStr(s) == [t |-> "string", v |-> s]

JNum(n) == [t |-> "number", v |-> n]

JBool(b) == [t |-> "boolean", v |-> b]

\* String(x || "").trim() || null
TrimOrNull(s) == IF Trim(s) = <<>> THEN JNull ELSE JStr(Trim(s))

PayloadKeys(f) ==
    {"attendance_status", "name", "email", "phone", "remarks", "invite_code"}
    \cup (IF f.attendance_status # "declined" /\ f.session_id # <<>>
          THEN {"session_id"} ELSE {})
    \cup (IF f.attendance_status = "declined" THEN {"allow_public_share"} ELSE {})

PayloadValue(k, f) ==
    CASE k = "attendance_status" -> JStr(f.attendance_status)
      [] k = "name" -> JStr(Trim(f.name))
      [] k = "email" -> TrimOrNull(f.email)
      [] k = "phone" -> TrimOrNull(f.phone)
      [] k = "remarks" -> TrimOrNull(f.remarks)
      [] k = "invite_code" -> TrimOrNull(f.invite_code)
      [] k = "session_id" -> JNum(StrToNat(f.session_id))
      [] k = "allow_public_share" -> JBool(f.allow_public_share)

\* buildPayload sending session_id whatever the attendance_status.
buildPayloadSessionAlways(f) ==
    [k \in PayloadKeys(f) \cup (IF f.session_id # <<>> THEN {"session_id"} ELSE {})
        |-> PayloadValue(k, f)]

\* buildPayload, of the form f of the render the handler belongs to
buildPayload(f) == [k \in PayloadKeys(f) |-> PayloadValue(k, f)]

\* ------------------------------------------------------------- the server

Slugs == {"s1", "s2"}

\* The record GET /public/events/{slug} returns for slug s, with the
\* deadline dl.
EventRecord(s, dl) ==
    [slug |-> s, rsvp_deadline |-> dl,
     sessions |-> IF s = "s1" THEN <<[id |-> 7], [id |-> 12]>> ELSE <<>>]

\* The deadlines the events of Spec carry.
DeadlineOfSlug(s) ==
    IF s = "s1" THEN Some(<<"2", "0", "2", "5", "-", "1", "2", "-", "3", "1">>)
    ELSE Some(<<"2", "0", "2", "5", "-", "1", "2", "-", "3", "0">>)

\* What the fetch of an event settles with: a network failure or a status.
LoadOutcomes ==
    {[net |-> TRUE, status |-> 0], [net |-> FALSE, status |-> 200],
     [net |-> FALSE, status |-> 404], [net |-> FALSE, status |-> 500]}

\* res.ok
IsOk(status) == status >= 200 /\ status <= 299

\* An exception: its name and its message.
Error(name, message) == [name |-> name, message |-> message]

AbortError == Error("AbortError", <<"The operation was aborted.">>)

NetworkError == Error("TypeError", <<"Failed to fetch">>)

JsonError == Error("SyntaxError", <<"Unexpected token < in JSON">>)

\* ------------------------------------------------------------ event loader

RemoveAt(q, i) == SubSeq(q, 1, i - 1) \o SubSeq(q, i + 1, Len(q))

\* controller.abort() of every effect instance that is cleaned up
AbortAll(q) == [i \in 1..Len(q) |-> [q[i] EXCEPT !.aborted = TRUE]]

\* LoadCatch without the test for an AbortError.
LoadCatchNoAbortCheck(e) == e.message

\* catch (e) { if (e.name === "AbortError") return; setErr(String(e.message || e)); }
LoadCatch(e) == IF e.name = "AbortError" THEN err ELSE e.message

\* load() without its finally block: setLoading(false) only after setEvent.
LoadFinallyOnlyOnSuccess(req) == IF ~req.aborted /\ req.stage = "body" THEN FALSE ELSE loading

\* finally { if (!controller.signal.aborted) setLoading(false); }
LoadFinally(req) == IF ~req.aborted THEN FALSE ELSE loading

\* The effect of [slug]: the cleanup of the previous effect aborts its
\* controller, then load() runs up to its first await.
StartLoad(s) ==
    /\ loading' = TRUE
    /\ err' = <<>>
    /\ event' = None
    /\ isRsvpClosed' = RsvpClosedMemo(None)
    /\ loads' = Append(AbortAll(loads), [slug |-> s, aborted |-> FALSE, stage |-> "fetch"])

\* The route changes to another slug: the component re-renders and the
\* effect of [slug] runs again.
Navigate(s) ==
    /\ mounted
    /\ s # slug
    /\ slug' = s
    /\ StartLoad(s)
    /\ UNCHANGED <<mounted, form, submitting, submitErr, submitOk, submits,
                   lookupKey, lookupLoading, lookupMsg, lookups, now>>

\* The page is torn down: the cleanup of the effect aborts the controller.
Teardown ==
    /\ mounted
    /\ mounted' = FALSE
    /\ loads' = AbortAll(loads)
    /\ UNCHANGED <<slug, event, loading, err, form, submitting, submitErr, submitOk,
                   submits, lookupKey, lookupLoading, lookupMsg, lookups,
                   isRsvpClosed, now, ops>>

\* load() from `await apiFetch(...)` on, for request i settling with o.  The
\* fetch of an aborted signal rejects with an AbortError.
LoadResponse(i, o) ==
    /\ i \in 1..Len(loads)
    /\ loads[i].stage = "fetch"
    /\ LET req == loads[i]
           thrown == IF req.aborted THEN Some(AbortError)
                     ELSE IF o.net THEN Some(NetworkError)
                     ELSE IF ~IsOk(o.status) /\ o.status # 404
                          THEN Some(Error("Error", <<"API error ">> \o NatToStr(o.status)))
                     ELSE None
       IN  IF IsSome(thrown) \/ ~IsOk(o.status)
           THEN /\ err' = IF IsSome(thrown) THEN LoadCatch(Get(thrown)) ELSE err
                /\ loading' = LoadFinally(req)
                /\ loads' = [loads EXCEPT ![i].stage = "done"]
           ELSE /\ loads' = [loads EXCEPT ![i].stage = "body"]
                /\ UNCHANGED <<err, loading>>
    /\ UNCHANGED <<slug, mounted, event, form, submitting, submitErr, submitOk,
                   submits, lookupKey, lookupLoading, lookupMsg, lookups,
                   isRsvpClosed, now, ops>>

\* PreselectSession spreading the form of the render that started the first
\* load, `{...form, session_id: ...}`, instead of prev.
PreselectSessionStaleClosure(prev, sessions) ==
    IF Len(sessions) > 0
    THEN [DefaultForm EXCEPT !.session_id = NatToStr(sessions[1].id)]
    ELSE prev

\* setForm((prev) => ({...prev, session_id: prev.session_id || String(sessions[0].id)}))
PreselectSession(prev, sessions) ==
    IF Len(sessions) > 0 /\ prev.session_id = <<>>
    THEN [prev EXCEPT !.session_id = NatToStr(sessions[1].id)]
    ELSE prev

\* load() from `await res.json()` on, for request i whose body is body:
\* None is a body that is not JSON.  Reading the body of an aborted request
\* rejects with an AbortError.
LoadBody(i, body) ==
    /\ i \in 1..Len(loads)
    /\ loads[i].stage = "body"
    /\ LET req == loads[i]
           thrown == IF req.aborted THEN Some(AbortError)
                     ELSE IF ~IsSome(body) THEN Some(JsonError)
                     ELSE None
       IN  IF IsSome(thrown)
           THEN /\ err' = LoadCatch(Get(thrown))
                /\ UNCHANGED <<event, form, isRsvpClosed>>
           ELSE /\ event' = body
                /\ form' = ClearSessionEffect(form, PreselectSession(form, Get(body).sessions))
                /\ isRsvpClosed' = RsvpClosedMemo(body)
                /\ UNCHANGED err
    /\ loading' = LoadFinally(loads[i])
    /\ loads' = [loads EXCEPT ![i].stage = "done"]
    /\ UNCHANGED <<slug, mounted, submitting, submitErr, submitOk, submits,
                   lookupKey, lookupLoading, lookupMsg, lookups, now, ops>>

\* ------------------------------------------------------------ form editing

\* The options the session <select> offers.
SessionOptions ==
    {<<>>} \cup (IF IsSome(event)
                 THEN {NatToStr(Get(event).sessions[k].id) : k \in 1..Len(Get(event).sessions)}
                 ELSE {})

\* The control named name is rendered, is enabled and can produce value.
InputEnabled(name, value) ==
    /\ ~isRsvpClosed
    /\ value # form[name]
    /\ CASE name = "attendance_status" -> value \in {"attending", "declined"}
         [] name = "session_id" ->
                /\ IsSome(event) /\ Len(Get(event).sessions) > 0
                /\ form.attendance_status # "declined"
                /\ value \in SessionOptions
         [] name = "allow_public_share" ->
                form.attendance_status = "declined" /\ value = ~form.allow_public_share
         [] OTHER -> TRUE

\* onFormChange, followed by the render and its effects
onFormChange(name, value) ==
    /\ submitOk' = <<>>
    /\ submitErr' = <<>>
    /\ form' = ClearSessionEffect(form, [form EXCEPT ![name] = value])
    /\ UNCHANGED <<slug, mounted, event, loading, err, loads, submitting, submits,
                   lookupKey, lookupLoading, lookupMsg, lookups, isRsvpClosed, now>>

\* -------------------------------------------------------------- submit flow

\* The body of a JSON response to the POST.
SubmitData(mode, message, errors) == [mode |-> mode, message |-> message, errors |-> errors]

\* One entry of a Laravel errors object: kind is "array", "string" or "other".
ErrorsEntry(key, kind, items, str) == [key |-> key, kind |-> kind, items |-> items, str |-> str]

\* What a POST settles with: a network failure, or a response with a status,
\* a JSON or a text content type, and a body (parsed = None: not parsable).
SubmitOutcome(net, status, json, parsed, text) ==
    [net |-> net, status |-> status, json |-> json, parsed |-> parsed, text |-> text]

firstLaravelError(errors) ==
    IF ~IsSome(errors) THEN <<>>
    ELSE IF Len(Get(errors)) = 0 THEN <<>>
    ELSE LET val == Get(errors)[1]
         IN  IF val.kind = "array" /\ Len(val.items) > 0 /\ val.items[1] # <<>>
             THEN val.items[1]
             ELSE IF val.kind = "string" THEN val.str
             ELSE <<>>

\* The msg of `if (!res.ok)` in onSubmitRSVP.
SubmitFailureMessage(o) ==
    LET fallback == <<"Submit failed (">> \o NatToStr(o.status) \o <<")">>
        data == Get(o.parsed)
        fromObject == IF data.message # <<>> THEN data.message
                      ELSE firstLaravelError(data.errors)
    IN  IF o.json
        THEN (IF fromObject # <<>> THEN fromObject ELSE fallback)
        ELSE (IF o.text # <<>> THEN o.text ELSE fallback)

\* What the try block of onSubmitRSVP throws for the outcome o, if anything.
SubmitThrown(o) ==
    IF o.net THEN Some(NetworkError)
    ELSE IF o.json /\ ~IsSome(o.parsed) THEN Some(JsonError)
    ELSE IF ~IsOk(o.status) THEN Some(Error("Error", SubmitFailureMessage(o)))
    ELSE None

\* String(e2?.message || e2)
ErrorText(e) == IF e.message # <<>> THEN e.message ELSE <<e.name>>

\* ResetForm resetting session_id too.
ResetFormAll(prev) == DefaultForm

\* The form after setForm((prev) => ({...prev, attendance_status: "attending", ...}))
ResetForm(prev) ==
    [prev EXCEPT !.attendance_status = "attending", !.name = <<>>, !.email = <<>>,
                 !.phone = <<>>, !.remarks = <<>>, !.invite_code = <<>>,
                 !.allow_public_share = FALSE]

\* onSubmitRSVP without setSubmitOk("") and setSubmitErr("").
onSubmitRSVPKeepsMessages ==
    /\ mounted
    /\ IF ~canSubmit
       THEN UNCHANGED <<submitting, submits>>
       ELSE /\ submitting' = TRUE
            /\ submits' = Append(submits, [slug |-> slug, body |-> buildPayload(form)])
    /\ UNCHANGED <<slug, mounted, event, loading, err, loads, form, lookupKey,
                   lookupLoading, lookupMsg, lookups, isRsvpClosed, now,
                   submitOk, submitErr>>

\* onSubmitRSVP up to its first await
onSubmitRSVP ==
    /\ mounted
    /\ submitOk' = <<>>
    /\ submitErr' = <<>>
    /\ IF ~canSubmit
       THEN UNCHANGED <<submitting, submits>>
       ELSE /\ submitting' = TRUE
            /\ submits' = Append(submits, [slug |-> slug, body |-> buildPayload(form)])
    /\ UNCHANGED <<slug, mounted, event, loading, err, loads, form, lookupKey,
                   lookupLoading, lookupMsg, lookups, isRsvpClosed, now>>

\* setSubmitting(false) at the end of the try block instead of in finally.
SubmitFinallySkippedOnThrow(thrown) == IF IsSome(thrown) THEN submitting ELSE FALSE

\* finally { setSubmitting(false); }, whatever the try block threw
SubmitFinally(thrown) == FALSE

\* onSubmitRSVP from the response on, for request i settling with o
SubmitSettle(i, o) ==
    /\ i \in 1..Len(submits)
    /\ LET thrown == SubmitThrown(o)
       IN  IF IsSome(thrown)
           THEN /\ submitErr' = ErrorText(Get(thrown))
                /\ UNCHANGED <<submitOk, form>>
           ELSE /\ submitOk' = IF o.json /\ Get(o.parsed).mode = Some("updated")
                               THEN <<"RSVP updated!">> ELSE <<"RSVP submitted!">>
                /\ form' = ClearSessionEffect(form, ResetForm(form))
                /\ UNCHANGED submitErr
    /\ submitting' = SubmitFinally(SubmitThrown(o))
    /\ submits' = RemoveAt(submits, i)
    /\ UNCHANGED <<slug, mounted, event, loading, err, loads, lookupKey,
                   lookupLoading, lookupMsg, lookups, isRsvpClosed, now, ops>>

\* -------------------------------------------------------------- lookup flow

\* The record of an RSVP in a lookup response; every field is optional.
RsvpRecord(att, name, email, phone, remarks, invite, session) ==
    [attendance_status |-> att, name |-> name, email |-> email, phone |-> phone,
     remarks |-> remarks, invite_code |-> invite, session_id |-> session]

\* data.data || {}
EmptyRsvpRecord == RsvpRecord(None, None, None, None, None, None, None)

LookupData(found, message, data) == [found |-> found, message |-> message, data |-> data]

LookupOutcome(net, status, parsed) == [net |-> net, status |-> status, parsed |-> parsed]

Contains(s, c) == \E k \in 1..Len(s) : s[k] = c

\* The URLSearchParams of onLookupRsvp for the trimmed key
LookupParams(key) ==
    IF Contains(key, "@") THEN "email" :> key
    ELSE IF MatchesPhone(key) THEN "phone" :> StripSpaces(key)
    ELSE "invite_code" :> key

\* The lookup button: disabled={lookupLoading || isRsvpClosed}
LookupDisabled == lookupLoading \/ isRsvpClosed

OrElse(o, dflt) == IF IsSome(o) THEN Get(o) ELSE dflt

\* The form after the setForm of a found lookup
LookupOverwrite(prev, d) ==
    [prev EXCEPT
        !.attendance_status =
            IF IsSome(d.attendance_status) /\ Get(d.attendance_status) # ""
            THEN Get(d.attendance_status)
            ELSE IF prev.attendance_status # "" THEN prev.attendance_status
            ELSE "attending",
        !.name = OrElse(d.name, <<>>),
        !.email = OrElse(d.email, <<>>),
        !.phone = OrElse(d.phone, <<>>),
        !.remarks = OrElse(d.remarks, <<>>),
        !.invite_code = OrElse(d.invite_code, prev.invite_code),
        !.session_id = IF IsSome(d.session_id) /\ Get(d.session_id) # 0
                       THEN NatToStr(Get(d.session_id)) ELSE <<>>]

\* What the try block of onLookupRsvp throws for the outcome o, if anything.
LookupThrown(o) ==
    IF o.net THEN Some(NetworkError)
    ELSE IF ~IsSome(o.parsed) THEN Some(JsonError)
    ELSE IF ~IsOk(o.status)
         THEN Some(Error("Error", IF Get(o.parsed).message # <<>>
                                  THEN Get(o.parsed).message ELSE <<"Lookup failed">>))
    ELSE None

\* onLookupRsvp up to its first await
onLookupRsvp ==
    /\ mounted
    /\ ~LookupDisabled
    /\ IF Trim(lookupKey) = <<>>
       THEN /\ lookupMsg' = <<"Enter your email, phone, or invite code.">>
            /\ UNCHANGED <<lookupLoading, lookups>>
       ELSE /\ lookupMsg' = <<>>
            /\ lookupLoading' = TRUE
            /\ lookups' = Append(lookups, [slug |-> slug,
                                           params |-> LookupParams(Trim(lookupKey))])
    /\ UNCHANGED <<slug, mounted, event, loading, err, loads, form, submitting,
                   submitErr, submitOk, submits, lookupKey, isRsvpClosed, now>>

\* finally { setLookupLoading(false); }, whatever the try block threw
LookupFinally(thrown) == FALSE

\* LookupForm without the early return of `if (!data?.found)`.
LookupFormNoFoundCheck(prev, o) ==
    IF IsSome(LookupThrown(o)) THEN prev
    ELSE ClearSessionEffect(prev,
             LookupOverwrite(prev, OrElse(Get(o.parsed).data, EmptyRsvpRecord)))

\* The form after onLookupRsvp has processed the outcome o: setForm is
\* reached only past the throw of `!res.ok` and the return of `!data?.found`.
LookupForm(prev, o) ==
    IF IsSome(LookupThrown(o)) THEN prev
    ELSE IF ~Get(o.parsed).found THEN prev
    ELSE ClearSessionEffect(prev,
             LookupOverwrite(prev, OrElse(Get(o.parsed).data, EmptyRsvpRecord)))

\* onLookupRsvp from the response on, for request i settling with o
LookupSettle(i, o) ==
    /\ i \in 1..Len(lookups)
    /\ LET thrown == LookupThrown(o)
       IN  IF IsSome(thrown)
           THEN lookupMsg' = IF Get(thrown).message # <<>> THEN Get(thrown).message
                             ELSE <<"Lookup failed">>
           ELSE IF ~Get(o.parsed).found
           THEN lookupMsg' = <<"No RSVP found with that info.">>
           ELSE lookupMsg' = <<"RSVP loaded. You can update and resubmit.">>
    /\ form' = LookupForm(form, o)
    /\ lookupLoading' = LookupFinally(LookupThrown(o))
    /\ lookups' = RemoveAt(lookups, i)
    /\ UNCHANGED <<slug, mounted, event, loading, err, loads, submitting, submitErr,
                   submitOk, submits, lookupKey, isRsvpClosed, now, ops>>

\* onChange of the lookup input: setLookupKey(e.target.value)
setLookupKey(value) ==
    /\ mounted
    /\ ~isRsvpClosed
    /\ lookupKey' = value
    /\ UNCHANGED <<slug, mounted, event, loading, err, loads, form, submitting,
                   submitErr, submitOk, submits, lookupLoading, lookupMsg, lookups,
                   isRsvpClosed, now>>

\* ------------------------------------------------------------------ clock

\* Time passes; nothing is rendered.
ClockAdvance(hours) ==
    /\ now + hours <= MaxHours
    /\ now' = now + hours
    /\ UNCHANGED <<slug, mounted, event, loading, err, loads, form, submitting,
                   submitErr, submitOk, submits, lookupKey, lookupLoading, lookupMsg,
                   lookups, isRsvpClosed>>

\* ----------------------------------------------------------- specification

\* The state after the first render and its effects: the load of the first
\* slug is in flight.
Init ==
    /\ slug = "s1"
    /\ mounted = TRUE
    /\ event = None
    /\ loading = TRUE
    /\ err = <<>>
    /\ loads = <<[slug |-> "s1", aborted |-> FALSE, stage |-> "fetch"]>>
    /\ form = DefaultForm
    /\ submitting = FALSE
    /\ submitErr = <<>>
    /\ submitOk = <<>>
    /\ submits = <<>>
    /\ lookupKey = <<>>
    /\ lookupLoading = FALSE
    /\ lookupMsg = <<>>
    /\ lookups = <<>>
    /\ isRsvpClosed = FALSE
    /\ now = 0
    /\ ops = 0

\* A user operation of a behaviour of Spec is counted.
Counted == ops < MaxOps /\ ops' = ops + 1

StrAl == <<" ", "A", "l", " ">>

StrEmail == <<" ", "a", "@", "b", ".", "c">>

StrKey == <<"a", "@", "b", ".", "c">>

\* What the user enters in the form in a behaviour of Spec.
FormInputs ==
    {[name |-> "attendance_status", value |-> "attending"],
     [name |-> "attendance_status", value |-> "declined"],
     [name |-> "name", value |-> StrAl],
     [name |-> "email", value |-> StrEmail],
     [name |-> "session_id", value |-> <<>>],
     [name |-> "session_id", value |-> <<"7">>],
     [name |-> "session_id", value |-> <<"1", "2">>],
     [name |-> "allow_public_share", value |-> TRUE],
     [name |-> "allow_public_share", value |-> FALSE]}

\* How the server answers a POST in a behaviour of Spec.
SubmitOutcomes ==
    {SubmitOutcome(TRUE, 0, FALSE, None, <<>>),
     SubmitOutcome(FALSE, 200, TRUE, Some(SubmitData(Some("created"), <<>>, None)), <<>>),
     SubmitOutcome(FALSE, 200, TRUE, Some(SubmitData(Some("updated"), <<>>, None)), <<>>),
     SubmitOutcome(FALSE, 200, TRUE, None, <<>>),
     SubmitOutcome(FALSE, 422, TRUE,
         Some(SubmitData(None, <<>>,
             Some(<<ErrorsEntry("name", "array", <<<<"The name field is required.">>>>, <<>>)>>))),
         <<>>),
     SubmitOutcome(FALSE, 500, FALSE, None, <<>>)}

\* How the server answers a lookup in a behaviour of Spec.
LookupOutcomes ==
    {LookupOutcome(TRUE, 0, None),
     LookupOutcome(FALSE, 200, None),
     LookupOutcome(FALSE, 200, Some(LookupData(FALSE, <<>>, None))),
     LookupOutcome(FALSE, 200, Some(LookupData(TRUE, <<>>,
         Some(RsvpRecord(Some("declined"), Some(<<"B", "o">>), None, None, None, None,
                         Some(12)))))),
     LookupOutcome(FALSE, 404, Some(LookupData(FALSE, <<"Event not found">>, None)))}

FormEdit ==
    \E e \in FormInputs :
        mounted /\ InputEnabled(e.name, e.value) /\ Counted /\ onFormChange(e.name, e.value)

LookupKeyEdit == Counted /\ lookupKey # StrKey /\ setLookupKey(StrKey)

SubmitClick == Counted /\ onSubmitRSVP

LookupClick == Counted /\ onLookupRsvp

SlugChange == \E s \in Slugs : Counted /\ Navigate(s)

Tick == \E h \in {8, 16} : mounted /\ Counted /\ ClockAdvance(h)

Unmount == Teardown

LoadSettles == \E i \in 1..Len(loads) : \E o \in LoadOutcomes : LoadResponse(i, o)

LoadBodyArrives ==
    \E i \in 1..Len(loads) :
        \E body \in {None, Some(EventRecord(loads[i].slug, DeadlineOfSlug(loads[i].slug)))} :
            LoadBody(i, body)

SubmitResponse == \E i \in 1..Len(submits) : \E o \in SubmitOutcomes : SubmitSettle(i, o)

LookupResponse == \E i \in 1..Len(lookups) : \E o \in LookupOutcomes : LookupSettle(i, o)

Next ==
    \/ FormEdit
    \/ LookupKeyEdit
    \/ SubmitClick
    \/ LookupClick
    \/ SlugChange
    \/ Tick
    \/ Unmount
    \/ LoadSettles
    \/ LoadBodyArrives
    \/ SubmitResponse
    \/ LookupResponse

Spec == Init /\ [][Next]_vars

\* A request that was issued settles: the browser resolves or rejects every
\* fetch, and the continuation of the awaiting handler then runs.
LiveSpec == Spec /\ WF_vars(SubmitResponse) /\ WF_vars(LookupResponse)

\* ------------------------------------------------------------------ claims

\* A step that issues a POST RSVP request.
PostIssued == Len(submits') > Len(submits)

\* The year, month and day a YYYY-MM-DD string names.
ParseDate(s) ==
    [y |-> StrToNat(SubSeq(s, 1, 4)), m |-> StrToNat(SubSeq(s, 6, 7)),
     d |-> StrToNat(SubSeq(s, 9, 10))]

\* The calendar date a is later than the calendar date b.
DateLater(a, b) ==
    \/ a.y > b.y
    \/ a.y = b.y /\ a.m > b.m
    \/ a.y = b.y /\ a.m = b.m /\ a.d > b.d

\* Today's date in UTC+8 is later than the deadline of the event of slug s.
PastDeadlineOf(s) ==
    /\ IsSome(DeadlineOfSlug(s))
    /\ MatchesDate(Get(DeadlineOfSlug(s)))
    /\ DateLater(DateSGT(now), ParseDate(Get(DeadlineOfSlug(s))))

\* C1: a POST RSVP request is issued only while today's date in UTC+8 is not
\* later than the rsvp_deadline of the event the current slug identifies.
C1_SubmitOnlyBeforeDeadline == [][PostIssued => ~PastDeadlineOf(slug)]_vars

\* C1, the gate left open: the event of the current slug is shown, today in
\* UTC+8 is past its deadline, the memoised gate still reads open and a POST
\* for that slug is in flight.
C1_StaleGateReached ==
    /\ IsSome(event)
    /\ Get(event).slug = slug
    /\ PastDeadlineOf(slug)
    /\ ~isRsvpClosed
    /\ Len(submits) = 1
    /\ submits[1].slug = slug

\* C2: in every settled state a declined form has an empty session_id.
C2_DeclinedHasNoSession ==
    form.attendance_status = "declined" => form.session_id = <<>>

\* Request i of loads finishes in this step, its controller aborted.
StaleLoadFinishes(i) ==
    /\ i \in 1..Len(loads)
    /\ loads[i].aborted
    /\ loads[i].stage # "done"
    /\ loads'[i].stage = "done"

\* C3: a load whose controller was aborted (the slug changed, or the page was
\* torn down) changes none of event, err, loading and form when it returns,
\* and the event shown is always the record of the current slug.
C3_StaleLoadIgnored ==
    [][/\ \A i \in 1..Len(loads) :
              StaleLoadFinishes(i) => UNCHANGED <<event, err, loading, form>>
       /\ IsSome(event') => Get(event').slug = slug']_vars

\* C3 witness: the load of an earlier slug returned after the slug changed, and
\* the event of the current slug is shown.
C3_Witness ==
    /\ IsSome(event)
    /\ loading = FALSE
    /\ \E i \in 1..Len(loads) :
           loads[i].aborted /\ loads[i].stage = "done" /\ loads[i].slug # slug

\* C5: at most one POST and at most one lookup request are in flight.
C5_OneRequestInFlight ==
    /\ Len(submits) <= 1
    /\ Len(lookups) <= 1
    /\ submitting = (Len(submits) = 1)
    /\ lookupLoading = (Len(lookups) = 1)

\* C5 witness: a POST and a lookup are in flight together.
C5_Witness == Len(submits) = 1 /\ Len(lookups) = 1 /\ submitting /\ lookupLoading

\* C6: every submit that sets submitting returns it to false and every lookup
\* that sets lookupLoading returns it to false, whatever the request settles
\* with.
C6_FlagsCleared ==
    /\ submitting ~> ~submitting
    /\ lookupLoading ~> ~lookupLoading

\* C6 witness: a submit and a lookup have both failed and both flows are idle.
C6_Witness ==
    /\ ~submitting /\ submits = <<>> /\ submitErr = JsonError.message
    /\ ~lookupLoading /\ lookups = <<>> /\ lookupMsg = NetworkError.message

\* The form the claim says a successful submit leaves, from the form f.
ResetAsClaimed(f) ==
    [attendance_status |-> "attending", name |-> <<>>, email |-> <<>>, phone |-> <<>>,
     session_id |-> f.session_id, remarks |-> <<>>, invite_code |-> <<>>,
     allow_public_share |-> FALSE]

\* The body of the response o was read: it is text, or JSON that parses.
BodyRead(o) == ~o.net /\ (o.json => IsSome(o.parsed))

\* C7 as stated: processing a 2xx submit response resets every field of the
\* form but session_id, and a non-2xx response or a network error changes no
\* field.
C7_ResetOn2xx ==
    [][\A i \in 1..Len(submits) : \A o \in SubmitOutcomes :
          SubmitSettle(i, o) =>
              IF ~o.net /\ IsOk(o.status) THEN form' = ResetAsClaimed(form)
              ELSE form' = form]_vars

\* C7 amended: processing a 2xx submit response whose body was read resets
\* every field of the form but session_id; a non-2xx response, a network error
\* and a 2xx response whose JSON body does not parse change no field.
C7_ResetOnSuccess ==
    [][\A i \in 1..Len(submits) : \A o \in SubmitOutcomes :
          SubmitSettle(i, o) =>
              IF BodyRead(o) /\ IsOk(o.status) THEN form' = ResetAsClaimed(form)
              ELSE form' = form]_vars

\* C7 witness: a submit succeeded and the form is reset with the session the
\* user chose still selected.
C7_Witness ==
    /\ submitOk # <<>>
    /\ ~submitting
    /\ form = [DefaultForm EXCEPT !.session_id = <<"1", "2">>]

\* The deadline values the gate is tried on.
DeadlineInputs ==
    {None,
     Some(<<>>),
     Some(<<"n", "o", "t", "-", "a", "-", "d", "a", "t", "e">>),
     Some(<<"2", "0", "2", "5", "-", "1", "2", "-", "3", "0">>),
     Some(<<"2", "0", "2", "5", "-", "1", "2", "-", "3", "1">>),
     Some(<<"2", "0", "2", "6", "-", "0", "1", "-", "0", "1">>),
     Some(<<"2", "0", "2", "6", "-", "0", "1", "-", "0", "2">>),
     Some(<<"2", "0", "2", "5", "-", "1", "2", "-", "3">>),
     Some(<<"2", "0", "2", "5", "/", "1", "2", "/", "3", "1">>),
     Some(<<"2", "0", "2", "5", "1", "2", "3", "1">>),
     Some(<<"2", "0", "2", "5", "-", "1", "2", "-", "3", "1", " ">>),
     Some(<<"2", "0", "2", "5", "-", "1", "3", "-", "4", "5">>),
     Some(<<"0", "0", "0", "0", "-", "0", "0", "-", "0", "0">>),
     Some(<<"2", "0", "2", "5", "-", "1", "a", "-", "3", "1">>)}

AllDigits(s) == \A k \in 1..Len(s) : IsDigit(s[k])

\* s has the shape YYYY-MM-DD.
WellFormedDate(s) ==
    /\ Len(s) = 10
    /\ AllDigits(SubSeq(s, 1, 4)) /\ s[5] = "-"
    /\ AllDigits(SubSeq(s, 6, 7)) /\ s[8] = "-"
    /\ AllDigits(SubSeq(s, 9, 10))

\* C8: the gate is closed exactly when the deadline is a well-formed
\* YYYY-MM-DD value and today's date in UTC+8 is later than it; it is open on
\* the deadline day, before it, and for an absent or malformed deadline.
C8_DeadlineGate ==
    \A dl \in DeadlineInputs :
        isAfterDeadlineSGT(dl) <=>
            /\ IsSome(dl)
            /\ WellFormedDate(Get(dl))
            /\ DateLater(DateSGT(now), ParseDate(Get(dl)))

\* C8 witness: the gate of the render is closed for the event shown, on the
\* day after its deadline in UTC+8 while the UTC date is still the deadline.
C8_Witness ==
    /\ IsSome(event)
    /\ isRsvpClosed
    /\ Get(event).rsvp_deadline = Some(FormatDate(DateUTC(now)))
    /\ DateSGT(now) = NextDay(DateUTC(now))

\* ------------------------------------------- specification of the form flow

\* SpecForms: the user fills the form from wider sets of values, between
\* requests, and submits it; the event loads, and a lookup can bring a record
\* into the form.

\* A user operation of a behaviour that does not count them.
Uncounted == UNCHANGED ops

\* Nothing is in flight and the event is shown.
Idle ==
    /\ submits = <<>>
    /\ lookups = <<>>
    /\ IsSome(event)

StrPhone50 == <<" ">> \o Repeat("9", PhoneMax - 1)

StrPhone51 == Repeat("9", PhoneMax + 1)

StrRemarks1000 == <<" ">> \o Repeat("r", RemarksMax - 1)

StrRemarks1001 == Repeat("r", RemarksMax + 1)

StrInvite50 == <<" ">> \o Repeat("c", InviteCodeMax - 2) \o <<" ">>

StrInvite51 == Repeat("c", InviteCodeMax + 1)

\* What the user enters in the form in a behaviour of SpecForms.
FormInputsAny ==
    FormInputs \cup
    {[name |-> "name", value |-> <<>>],
     [name |-> "name", value |-> <<" ", "\t">>],
     [name |-> "email", value |-> <<>>],
     [name |-> "email", value |-> <<"a", "@", "b">>],
     [name |-> "email", value |-> <<"a", "@", "b", "@", "c", ".", "d">>],
     [name |-> "phone", value |-> <<>>],
     [name |-> "phone", value |-> StrPhone50],
     [name |-> "phone", value |-> StrPhone51],
     [name |-> "remarks", value |-> <<>>],
     [name |-> "remarks", value |-> StrRemarks1000],
     [name |-> "remarks", value |-> StrRemarks1001],
     [name |-> "invite_code", value |-> <<>>],
     [name |-> "invite_code", value |-> StrInvite50],
     [name |-> "invite_code", value |-> StrInvite51]}

\* A record whose attendance_status is none of the two options.
UnknownStatusRecord ==
    RsvpRecord(Some("maybe"), Some(<<"B", "o">>), None, None, None, None, None)

FormEditAny ==
    \E e \in FormInputsAny :
        /\ mounted /\ Idle /\ InputEnabled(e.name, e.value)
        /\ Uncounted /\ onFormChange(e.name, e.value)

SubmitInvoke == Idle /\ Uncounted /\ onSubmitRSVP

LoadSucceeds ==
    \E i \in 1..Len(loads) : LoadResponse(i, [net |-> FALSE, status |-> 200])

LoadBodyParsed ==
    \E i \in 1..Len(loads) :
        LoadBody(i, Some(EventRecord(loads[i].slug, DeadlineOfSlug(loads[i].slug))))

LookupKeyTyped == Idle /\ lookupKey # StrKey /\ Uncounted /\ setLookupKey(StrKey)

LookupInvoke == Idle /\ lookupKey = StrKey /\ Uncounted /\ onLookupRsvp

\* A record without attendance_status, with a session.
SessionOnlyRecord ==
    RsvpRecord(None, Some(<<"B", "o">>), None, None, None, None, Some(12))

LookupFinds ==
    \E i \in 1..Len(lookups) : \E d \in {UnknownStatusRecord, SessionOnlyRecord} :
        LookupSettle(i, LookupOutcome(FALSE, 200, Some(LookupData(TRUE, <<>>, Some(d)))))

NextForms ==
    \/ FormEditAny
    \/ SubmitInvoke
    \/ SubmitResponse
    \/ LoadSucceeds
    \/ LoadBodyParsed
    \/ LookupKeyTyped
    \/ LookupInvoke
    \/ LookupFinds

SpecForms == Init /\ [][NextForms]_vars

\* s has no character other than white space.
AllSpace(s) == \A k \in 1..Len(s) : IsSpace(s[k])

\* t is s without its leading and trailing white space.
IsTrimOf(t, s) ==
    /\ t = <<>> \/ (~IsSpace(t[1]) /\ ~IsSpace(t[Len(t)]))
    /\ \E i \in 0..(Len(s) - Len(t)) :
           /\ SubSeq(s, i + 1, i + Len(t)) = t
           /\ AllSpace(SubSeq(s, 1, i))
           /\ AllSpace(SubSeq(s, i + Len(t) + 1, Len(s)))

\* s, apart from surrounding white space, has the shape local@domain.tld: one
\* "@", no white space, a non-empty local part, and a "." in the domain with
\* a character on each side of it.
EmailShape(s) ==
    \E t \in {SubSeq(s, i, j) : i \in 1..Len(s), j \in 1..Len(s)} :
        /\ IsTrimOf(t, s)
        /\ Cardinality({k \in 1..Len(t) : t[k] = "@"}) = 1
        /\ \A k \in 1..Len(t) : ~IsSpace(t[k])
        /\ LET at == CHOOSE k \in 1..Len(t) : t[k] = "@"
           IN  /\ at > 1
               /\ \E q \in (at + 2)..(Len(t) - 1) : t[q] = "."

\* The form f passes every rule of the validator, as the claim words them.
ValidAsClaimed(f) ==
    /\ f.attendance_status \in {"attending", "declined"}
    /\ ~AllSpace(f.name)
    /\ AllSpace(f.email) \/ EmailShape(f.email)
    /\ Len(f.phone) <= 50
    /\ Len(f.remarks) <= 1000
    /\ Len(f.invite_code) <= 50

\* C4: a POST is issued only from a form that passes every validator rule;
\* invoking submit with a rule violated issues no request.
C4_SubmitOnlyValid == [][PostIssued => ValidAsClaimed(form)]_vars

\* C4 witness: a POST is in flight for a form whose optional fields are all
\* filled, phone, remarks and invite_code at their largest allowed length.
C4_Witness ==
    /\ Len(submits) = 1
    /\ form.email = StrEmail
    /\ Len(form.phone) = 50
    /\ Len(form.remarks) = 1000
    /\ Len(form.invite_code) = 50

\* C4, second witness: the gate refuses a form for its attendance_status alone.
C4_RefusedWitness ==
    /\ ~canSubmit
    /\ ~submitting /\ ~isRsvpClosed
    /\ form.attendance_status = "maybe"

\* The value the claim gives an optional text field: trimmed, or null.
TrimmedOrNull(v, s) ==
    /\ v # JStr(<<>>)
    /\ IF AllSpace(s) THEN v = JNull ELSE v.t = "string" /\ IsTrimOf(v.v, s)

\* The payload p is the one the claim describes for the form f.
PayloadAsClaimed(p, f) ==
    /\ p.attendance_status = JStr(f.attendance_status)
    /\ p.name.t = "string" /\ IsTrimOf(p.name.v, f.name)
    /\ TrimmedOrNull(p.email, f.email)
    /\ TrimmedOrNull(p.phone, f.phone)
    /\ TrimmedOrNull(p.remarks, f.remarks)
    /\ TrimmedOrNull(p.invite_code, f.invite_code)
    /\ ("session_id" \in DOMAIN p) <=>
           (f.attendance_status # "declined" /\ f.session_id # <<>>)
    /\ "session_id" \in DOMAIN p =>
           p.session_id.t = "number" /\ NatToStr(p.session_id.v) = f.session_id
    /\ ("allow_public_share" \in DOMAIN p) <=> f.attendance_status = "declined"
    /\ "allow_public_share" \in DOMAIN p =>
           p.allow_public_share.t = "boolean"
           /\ p.allow_public_share.v = f.allow_public_share
    /\ DOMAIN p \subseteq {"attendance_status", "name", "email", "phone", "remarks",
                           "invite_code", "session_id", "allow_public_share"}

\* C9: the payload of every POST is built from the form as the claim says;
\* no request carries session_id together with attendance_status "declined".
C9_PayloadShape ==
    [][PostIssued =>
          /\ PayloadAsClaimed(submits'[Len(submits')].body, form)
          /\ ~ (/\ "session_id" \in DOMAIN submits'[Len(submits')].body
                /\ submits'[Len(submits')].body.attendance_status = JStr("declined"))]_vars

\* C9 witness: a declined form that still holds a session is in flight, its
\* payload without session_id and with allow_public_share.
C9_Witness ==
    /\ Len(submits) = 1
    /\ form.attendance_status = "declined"
    /\ form.session_id # <<>>
    /\ "session_id" \notin DOMAIN submits[1].body
    /\ submits[1].body.allow_public_share = JBool(TRUE)

\* C9, second witness: an attending form with a session is in flight,
\* session_id a number in its payload.
C9_SessionWitness ==
    /\ Len(submits) = 1
    /\ form.session_id = <<"1", "2">>
    /\ submits[1].body.session_id = JNum(12)
    /\ submits[1].body.remarks.t = "string"

\* ----------------------------------------- specification of the lookup flow

\* SpecLookup: the user types lookup keys from a wider set and looks them up.

\* What the user types in the lookup input in a behaviour of SpecLookup.
LookupKeyInputs ==
    {StrKey,
     <<>>,
     <<" ">>,
     <<"\t", " ">>,
     <<" ", "a", "@", "b", ".", "c", " ">>,
     <<"a", " ", "b", "@", "c">>,
     <<"1", "2", "3", "4", "5", "6", "7", "@">>,
     <<"+", "6", "5", " ", "9", "1", "2", "3", " ", "4", "5", "6", "7">>,
     <<"1", "2", "3", "4", "5", "6", "7">>,
     <<"1", "2", "3", "4", "5", "6">>,
     <<"1", "2", "3", "4", "5", "6", "7", "8">>,
     <<"9", "1", "2", "3", "-", "4", "5", "6", "7">>,
     <<"+", "1", "2", "3", "4", "5", "6", "7">>,
     <<"+", "1", "2", "3", "4", "5", "6">>,
     <<"W", "E", "L", "C", "O", "M", "E", "1", "0">>,
     <<"1", "2", "3", "4", "5", "6", "7", "a">>,
     <<" ", "1", "2", "3", "4", "5", "6", "7", " ">>,
     <<"-", "1", "2", "3", "4", "5", "6", "7">>,
     <<"1", "2", " ", "3", "4", "\t", "5", "6", "7">>}

LookupKeyTypedAny ==
    \E v \in LookupKeyInputs : v # lookupKey /\ Uncounted /\ setLookupKey(v)

LookupInvokeAny == Uncounted /\ onLookupRsvp

NextLookup ==
    \/ LookupKeyTypedAny
    \/ LookupInvokeAny
    \/ LookupResponse

SpecLookup == Init /\ [][NextLookup]_vars

\* key is an optional "+", a digit, then at least n more characters, each a
\* digit, white space or a hyphen.
PhoneAsClaimed(key, n) ==
    \E plus \in {0, 1} :
        /\ plus = 1 => (Len(key) >= 1 /\ key[1] = "+")
        /\ Len(key) >= plus + 1 + n
        /\ IsDigit(key[plus + 1])
        /\ \A k \in (plus + 2)..Len(key) :
               IsDigit(key[k]) \/ IsSpace(key[k]) \/ key[k] = "-"

NotSpace(c) == ~IsSpace(c)

\* The query parameters the claim gives the trimmed key, the phone pattern
\* asking for n more characters after the first digit.
ParamsAsClaimed(key, n) ==
    IF \E k \in 1..Len(key) : key[k] = "@" THEN [p \in {"email"} |-> key]
    ELSE IF PhoneAsClaimed(key, n) THEN [p \in {"phone"} |-> SelectSeq(key, NotSpace)]
    ELSE [p \in {"invite_code"} |-> key]

\* What the claim says of a step of the lookup handler, for that n.
LookupAsClaimed(n) ==
    IF AllSpace(lookupKey)
    THEN /\ lookups' = lookups
         /\ lookupMsg' # <<>>
    ELSE /\ Len(lookups') = Len(lookups) + 1
         /\ SubSeq(lookups', 1, Len(lookups)) = lookups
         /\ LET sent == lookups'[Len(lookups')].params
                key == CHOOSE t \in {SubSeq(lookupKey, i, j) :
                                        i \in 1..Len(lookupKey), j \in 1..Len(lookupKey)} :
                           IsTrimOf(t, lookupKey)
            IN  /\ Cardinality(DOMAIN sent) = 1
                /\ DOMAIN sent \subseteq {"email", "phone", "invite_code"}
                /\ sent = ParamsAsClaimed(key, n)

\* C10 as stated: the phone pattern is a digit followed by at least 7 more
\* digits, spaces or hyphens.
C10_LookupClassifiedSevenMore == [][onLookupRsvp => LookupAsClaimed(7)]_vars

\* C10 amended: an empty or white-space key issues no request and shows a
\* prompt; any other key issues one request with exactly one of email, phone,
\* invite_code: email if the trimmed key contains "@", else phone (white space
\* removed) if it is an optional "+", a digit, then at least 6 more digits,
\* white space or hyphens, else invite_code.
C10_LookupClassified == [][onLookupRsvp => LookupAsClaimed(6)]_vars

\* C10 witness: a lookup by phone is in flight, the white space of the key
\* removed from the parameter.
C10_Witness ==
    /\ Len(lookups) = 1
    /\ lookupLoading
    /\ lookupKey = <<"+", "6", "5", " ", "9", "1", "2", "3", " ", "4", "5", "6", "7">>
    /\ lookups[1].params = [p \in {"phone"} |-> <<"+", "6", "5", "9", "1", "2", "3", "4", "5", "6", "7">>]

\* ----------------------------------------- specification of the submit flow

\* SpecSubmit: the user fills the form and submits it, and the server answers
\* the POST with rejections of every shape the handler tells apart.

\* A Laravel validation response: message and errors together.
InvalidDataBoth ==
    SubmitData(None, <<"The given data was invalid.">>,
        Some(<<ErrorsEntry("email", "array",
                   <<<<"The email must be valid.">>, <<"The email is taken.">>>>, <<>>),
               ErrorsEntry("name", "array", <<<<"The name field is required.">>>>, <<>>)>>))

\* How the server rejects a POST in a behaviour of SpecSubmit.
SubmitRejections ==
    {SubmitOutcome(FALSE, 422, TRUE, Some(InvalidDataBoth), <<>>),
     SubmitOutcome(FALSE, 422, TRUE,
         Some(SubmitData(None, <<>>,
             Some(<<ErrorsEntry("phone", "array", <<<<"The phone is too long.">>>>, <<>>),
                    ErrorsEntry("name", "array", <<<<"Second field.">>>>, <<>>)>>))),
         <<>>),
     SubmitOutcome(FALSE, 423, TRUE,
         Some(SubmitData(None, <<>>,
             Some(<<ErrorsEntry("name", "string", <<>>, <<"Name is required.">>)>>))),
         <<>>),
     SubmitOutcome(FALSE, 409, TRUE, Some(SubmitData(None, <<"Duplicate RSVP">>, None)), <<>>),
     SubmitOutcome(FALSE, 400, TRUE, Some(SubmitData(None, <<>>, None)), <<>>),
     SubmitOutcome(FALSE, 424, TRUE, Some(SubmitData(None, <<>>, Some(<<>>))), <<>>),
     SubmitOutcome(FALSE, 502, FALSE, None, <<"Bad Gateway">>),
     SubmitOutcome(FALSE, 503, FALSE, None, <<>>),
     SubmitOutcome(FALSE, 504, TRUE, None, <<>>)}

SubmitRejected ==
    \E i \in 1..Len(submits) : \E o \in SubmitRejections \cup SubmitOutcomes :
        SubmitSettle(i, o)

NextSubmit ==
    \/ FormEdit
    \/ SubmitClick
    \/ LoadSettles
    \/ LoadBodyArrives
    \/ SubmitRejected

SpecSubmit == Init /\ [][NextSubmit]_vars

\* The errors map names a first field and that field has a first error.
HasFieldError(errors) ==
    /\ IsSome(errors)
    /\ Len(Get(errors)) > 0
    /\ \/ Get(errors)[1].kind = "array" /\ Len(Get(errors)[1].items) > 0
       \/ Get(errors)[1].kind = "string"

\* The first error of the first field of the errors map.
FirstFieldError(errors) ==
    IF Get(errors)[1].kind = "array" THEN Get(errors)[1].items[1] ELSE Get(errors)[1].str

\* The message the claim gives a non-2xx response o whose body was read:
\* structured field error, else message field, else raw text, else the
\* generic text with the status.
MessageAsClaimed(o) ==
    LET generic == <<"Submit failed (">> \o NatToStr(o.status) \o <<")">>
    IN  IF o.json
        THEN (IF HasFieldError(Get(o.parsed).errors)
              THEN FirstFieldError(Get(o.parsed).errors)
              ELSE IF Get(o.parsed).message # <<>> THEN Get(o.parsed).message
              ELSE generic)
        ELSE (IF o.text # <<>> THEN o.text ELSE generic)

\* C11: the message shown for a non-2xx submit response is the first error of
\* the first field of the errors map if there is one, else the message field,
\* else the raw text body, else "Submit failed (<status>)"; a body with both
\* message and errors shows the field error.
C11_FieldErrorFirst ==
    [][\A i \in 1..Len(submits) : \A o \in SubmitRejections :
          (SubmitSettle(i, o) /\ BodyRead(o) /\ ~IsOk(o.status)) =>
              submitErr' = MessageAsClaimed(o)]_vars

\* C11, the divergence reached: a response with both message and errors was
\* processed and the message field is shown, not the field error.
C11_MessageShown ==
    /\ ~submitting
    /\ submitErr = InvalidDataBoth.message
    /\ submitErr # FirstFieldError(InvalidDataBoth.errors)

\* The seven fields a found lookup writes.
LookupFields ==
    {"attendance_status", "name", "email", "phone", "remarks", "invite_code", "session_id"}

\* The value the claim gives the field k of the form for the returned record
\* d: the record's value, or the field's own default when the record lacks it.
FieldAsClaimed(k, d) ==
    IF k = "attendance_status" THEN OrElse(d.attendance_status, "attending")
    ELSE IF k = "session_id"
         THEN (IF IsSome(d.session_id) THEN NatToStr(Get(d.session_id)) ELSE <<>>)
    ELSE OrElse(d[k], <<>>)

\* C12: processing a found lookup sets each of the seven fields to the value
\* of the returned record, or to the field's own default when the record
\* lacks it, whatever the form held before.
C12_LookupOverwritesAll ==
    [][\A i \in 1..Len(lookups) : \A d \in {UnknownStatusRecord, SessionOnlyRecord} :
          LookupSettle(i, LookupOutcome(FALSE, 200, Some(LookupData(TRUE, <<>>, Some(d))))) =>
              \A k \in LookupFields : form'[k] = FieldAsClaimed(k, d)]_vars

\* C12, the divergence reached: after the lookup of a record without
\* attendance_status and invite_code the form is still declined and still
\* holds the invite code typed before.
C12_PreviousValuesKept ==
    /\ lookups = <<>>
    /\ lookupMsg = <<"RSVP loaded. You can update and resubmit.">>
    /\ form.name = <<"B", "o">>
    /\ form.session_id = <<"1", "2">>
    /\ form.attendance_status = "declined"
    /\ form.invite_code # <<>>

\* The lookup response o is a 2xx response that parses, with found = true.
FoundResponse(o) ==
    ~o.net /\ IsSome(o.parsed) /\ IsOk(o.status) /\ Get(o.parsed).found

\* The state of the page other than lookupMsg and lookupLoading.
NonLookupState ==
    <<slug, mounted, event, loading, err, form, submitting, submitErr, submitOk,
      lookupKey, isRsvpClosed>>

\* C13: a lookup with empty input, and a lookup response that is 2xx with
\* found = false, non-2xx, not JSON, or a network failure, leave every form
\* field as it was and change nothing but lookupMsg and lookupLoading.
C13_OnlyFoundChangesForm ==
    [][/\ (onLookupRsvp /\ AllSpace(lookupKey)) =>
              UNCHANGED NonLookupState /\ UNCHANGED lookups
       /\ \A i \in 1..Len(lookups) : \A o \in LookupOutcomes :
              (LookupSettle(i, o) /\ ~FoundResponse(o)) => UNCHANGED NonLookupState]_vars

\* C13 witness: a lookup returned "not found" to a form the user had filled,
\* and the form still holds what the user typed.
C13_Witness ==
    /\ lookups = <<>>
    /\ ~lookupLoading
    /\ lookupMsg = <<"No RSVP found with that info.">>
    /\ form.name = StrAl

\* C13, second witness: a lookup with empty input showed the prompt.
C13_PromptWitness ==
    /\ lookups = <<>>
    /\ ~lookupLoading
    /\ lookupMsg = <<"Enter your email, phone, or invite code.">>
    /\ form.name = StrAl

\* A step of the lookup handler that issues a request.
LookupIssued == Len(lookups') > Len(lookups)

\* C14: a submit can be started while a lookup is in flight and a lookup while
\* a submit is in flight; a lookup response arriving during a submit changes
\* none of the payload sent, submitting, submitOk and submitErr; a submit
\* response arriving during a lookup changes neither lookupLoading nor
\* lookupMsg; and with both in flight, both flows end idle.
C14_SubmitLookupIndependent ==
    /\ [](/\ (mounted /\ lookupLoading /\ ~submitting /\ ~isRsvpClosed
                  /\ ValidAsClaimed(form))
              => ENABLED (onSubmitRSVP /\ PostIssued)
          /\ (mounted /\ submitting /\ ~lookupLoading /\ ~isRsvpClosed
                  /\ ~AllSpace(lookupKey))
              => ENABLED (onLookupRsvp /\ LookupIssued))
    /\ [][/\ \A i \in 1..Len(lookups) : \A o \in LookupOutcomes :
                 (LookupSettle(i, o) /\ submitting) =>
                     UNCHANGED <<submits, submitting, submitOk, submitErr>>
          /\ \A i \in 1..Len(submits) : \A o \in SubmitOutcomes :
                 (SubmitSettle(i, o) /\ lookupLoading) =>
                     UNCHANGED <<lookups, lookupLoading, lookupMsg>>]_vars
    /\ (submitting /\ lookupLoading) ~> (~submitting /\ ~lookupLoading)

\* C14 witness: a found lookup returned while the POST was in flight: the form
\* holds the record, the payload sent still holds the name the user typed.
C14_Witness ==
    /\ Len(submits) = 1
    /\ submitting
    /\ submits[1].body.name = JStr(<<"A", "l">>)
    /\ lookups = <<>>
    /\ ~lookupLoading
    /\ lookupMsg = <<"RSVP loaded. You can update and resubmit.">>
    /\ form.name = <<"B", "o">>

\* C14, second witness: the POST failed while the lookup was still in flight.
C14_SubmitFirstWitness ==
    /\ submits = <<>>
    /\ ~submitting
    /\ submitErr # <<>>
    /\ Len(lookups) = 1
    /\ lookupLoading
    /\ lookupMsg = <<>>

\* The fields of the form.
FormFields == DOMAIN DefaultForm

\* The form keeps, from this state to the next, every field outside named.
KeepsOutside(named) == \A k \in FormFields \ named : form'[k] = form[k]

\* C15: every update of the form is applied to the form as it is when the
\* update is applied: the fields its delta does not name keep their values,
\* edits made while the request was in flight included.  A user edit names its
\* field (and session_id, which the declined effect clears); a completed load
\* names session_id only, and changes it only when it was empty; the reset
\* after a successful submit names every field but session_id; a found lookup
\* names every field but allow_public_share.
C15_UpdatesMergeLatest ==
    [][/\ \A e \in FormInputs :
              onFormChange(e.name, e.value) =>
                  /\ KeepsOutside({e.name, "session_id"})
                  /\ e.name # "attendance_status" => KeepsOutside({e.name})
       /\ \A i \in 1..Len(loads) :
              /\ \A o \in LoadOutcomes : LoadResponse(i, o) => form' = form
              /\ \A body \in {None, Some(EventRecord(loads[i].slug, DeadlineOfSlug(loads[i].slug)))} :
                     LoadBody(i, body) =>
                         /\ KeepsOutside({"session_id"})
                         /\ form.session_id # <<>> => form' = form
       /\ \A i \in 1..Len(submits) : \A o \in SubmitOutcomes :
              SubmitSettle(i, o) => KeepsOutside(FormFields \ {"session_id"})
       /\ \A i \in 1..Len(lookups) : \A o \in LookupOutcomes :
              LookupSettle(i, o) => KeepsOutside(LookupFields)]_vars

\* C15 witness: the user declined and typed a name while the load was in
\* flight; the load then completed and pre-selected the first session, and the
\* form still holds both edits.
C15_Witness ==
    /\ IsSome(event)
    /\ ~loading
    /\ form.attendance_status = "declined"
    /\ form.name = StrAl
    /\ form.session_id = <<"7">>

\* C15, second witness: the user chose another session while the POST was in
\* flight; the POST succeeded and the reset kept that session.
C15_ResetWitness ==
    /\ submitOk # <<>>
    /\ ~submitting
    /\ form.name = <<>>
    /\ form.session_id = <<"1", "2">>
    /\ IsSome(event)

C16_ErrorWitness ==
    /\ mounted
    /\ event = None
    /\ err = <<"API error ", "5", "0", "0">>
    /\ ~loading

\* C16, third witness: the load was answered 200 and the event is shown.
C16_LoadedWitness ==
    /\ mounted
    /\ slug = "s2"
    /\ event = Some(EventRecord("s2", DeadlineOfSlug("s2")))
    /\ err = <<>>
    /\ ~loading

\* C17: submitOk and submitErr are never both non-empty, and both are empty
\* while submitting is true; invoking submit and every form edit clear both; a
\* finished submit sets exactly one of them, in the step in which submitting
\* returns to false.
C17_OneSubmitMessage ==
    /\ [](/\ ~(submitOk # <<>> /\ submitErr # <<>>)
          /\ submitting => (submitOk = <<>> /\ submitErr = <<>>))
    /\ [][/\ onSubmitRSVP => (submitOk' = <<>> /\ submitErr' = <<>>)
          /\ \A e \in FormInputs :
                 onFormChange(e.name, e.value) => (submitOk' = <<>> /\ submitErr' = <<>>)
          /\ \A i \in 1..Len(submits) : \A o \in SubmitOutcomes :
                 SubmitSettle(i, o) =>
                     /\ submitting /\ ~submitting'
                     /\ (submitOk' # <<>>) # (submitErr' # <<>>)
                     /\ <<submitOk, submitErr>> # <<submitOk', submitErr'>>]_vars

\* C17 witness: a submit was rejected with a validation error: the error is
\* shown, no success message is, and the flow is idle.
C17_Witness ==
    /\ ~submitting
    /\ submits = <<>>
    /\ submitErr = <<"The name field is required.">>
    /\ submitOk = <<>>

====
